---------------------------- MODULE Spec2Model ----------------------------
(***************************************************************************)
(* Model of frequency_slot.py: the Meshtastic channel-name -> frequency    *)
(* slot calculator.  main() is modelled as a sequence of steps over the    *)
(* program's local variables; the helper functions are operators.          *)
(*                                                                         *)
(* Python integers are unbounded and Python floats are IEEE-754 binary64,  *)
(* while TLC integers are 32 bits wide.  Unbounded naturals are therefore  *)
(* little-endian sequences of 15-bit limbs, and a float is a record        *)
(* [sign, man, exp] that denotes sign * man * 2^exp with a 53-bit          *)
(* mantissa, every operation rounding to nearest, ties to even.            *)
(***************************************************************************)
EXTENDS Integers, Sequences, FiniteSets, TLC

(***************************************************************************)
(* Unbounded naturals (Python int, non-negative part).  The arithmetic is  *)
(* written as functions: a function is applied to values, so an argument   *)
(* is evaluated once however often the body uses it.                       *)
(***************************************************************************)
LimbBits == 15
Base == 2^LimbBits

BigNat == Seq(0..(Base - 1))

Pow2(k) == 2^k

NatNorm[x \in BigNat] ==
    IF x = <<>> THEN <<>>
    ELSE IF x[Len(x)] = 0 THEN NatNorm[SubSeq(x, 1, Len(x) - 1)]
    ELSE x

NatFromInt[n \in Nat] == IF n = 0 THEN <<>> ELSE <<n % Base>> \o NatFromInt[n \div Base]

Limb(x, i) == IF i <= Len(x) THEN x[i] ELSE 0

NatAddFrom[x \in BigNat, y \in BigNat, i \in Nat, c \in Nat] ==
    IF i > Len(x) /\ i > Len(y)
    THEN (IF c = 0 THEN <<>> ELSE <<c>>)
    ELSE LET s == Limb(x, i) + Limb(y, i) + c
         IN  <<s % Base>> \o NatAddFrom[x, y, i + 1, s \div Base]

NatAdd[x \in BigNat, y \in BigNat] == NatAddFrom[x, y, 1, 0]

\* x - y for x >= y
NatSubFrom[x \in BigNat, y \in BigNat, i \in Nat, b \in Nat] ==
    IF i > Len(x) THEN <<>>
    ELSE LET d == x[i] - Limb(y, i) - b
         IN  IF d < 0 THEN <<d + Base>> \o NatSubFrom[x, y, i + 1, 1]
                      ELSE <<d>> \o NatSubFrom[x, y, i + 1, 0]

NatSub[x \in BigNat, y \in BigNat] == NatNorm[NatSubFrom[x, y, 1, 0]]

\* -1, 0, 1 as x < y, x = y, x > y (both normalised)
NatCmpFrom[x \in BigNat, y \in BigNat, i \in Nat] ==
    IF i = 0 THEN 0
    ELSE IF x[i] < y[i] THEN -1
    ELSE IF x[i] > y[i] THEN 1
    ELSE NatCmpFrom[x, y, i - 1]

NatCmp[x \in BigNat, y \in BigNat] ==
    IF Len(x) < Len(y) THEN -1
    ELSE IF Len(x) > Len(y) THEN 1
    ELSE NatCmpFrom[x, y, Len(x)]

\* x * k for 0 <= k <= Base
NatMulSmallFrom[x \in BigNat, k \in Nat, i \in Nat, c \in Nat] ==
    IF i > Len(x) THEN NatFromInt[c]
    ELSE LET p == x[i] * k + c
         IN  <<p % Base>> \o NatMulSmallFrom[x, k, i + 1, p \div Base]

NatMulSmall[x \in BigNat, k \in Nat] == NatNorm[NatMulSmallFrom[x, k, 1, 0]]

Zeros[n \in Nat] == IF n = 0 THEN <<>> ELSE <<0>> \o Zeros[n - 1]

NatMulFrom[x \in BigNat, y \in BigNat, i \in Nat] ==
    IF i > Len(y) THEN <<>>
    ELSE NatAdd[IF y[i] = 0 THEN <<>> ELSE Zeros[i - 1] \o NatMulSmall[x, y[i]],
                NatMulFrom[x, y, i + 1]]

NatMul[x \in BigNat, y \in BigNat] == IF x = <<>> THEN <<>> ELSE NatMulFrom[x, y, 1]

\* x * 2^k  (x << k)
NatShl[x \in BigNat, k \in Nat] ==
    IF x = <<>> THEN <<>>
    ELSE Zeros[k \div LimbBits] \o NatMulSmall[x, Pow2(k % LimbBits)]

\* floor(x / d) and x mod d for 1 <= d <= 2^16
NatDivSmallFrom[x \in BigNat, d \in Nat, i \in Nat, r \in Nat] ==
    IF i = 0 THEN <<>>
    ELSE LET t == r * Base + x[i]
         IN  NatDivSmallFrom[x, d, i - 1, t % d] \o <<t \div d>>

NatDivSmall[x \in BigNat, d \in Nat] == NatNorm[NatDivSmallFrom[x, d, Len(x), 0]]

NatModSmallFrom[x \in BigNat, d \in Nat, i \in Nat, r \in Nat] ==
    IF i = 0 THEN r ELSE NatModSmallFrom[x, d, i - 1, (r * Base + x[i]) % d]

NatModSmall[x \in BigNat, d \in Nat] == NatModSmallFrom[x, d, Len(x), 0]

\* floor(x / 2^k)
NatShr[x \in BigNat, k \in Nat] ==
    LET w == k \div LimbBits
    IN  IF w >= Len(x) THEN <<>>
        ELSE NatDivSmall[SubSeq(x, w + 1, Len(x)), Pow2(k % LimbBits)]

\* x mod 2^k
NatModPow2[x \in BigNat, k \in Nat] ==
    LET w == k \div LimbBits
    IN  IF w >= Len(x) THEN x
        ELSE NatNorm[SubSeq(x, 1, w) \o <<x[w + 1] % Pow2(k % LimbBits)>>]

\* the number of bits of a limb n: 0 for 0, else k with 2^(k-1) <= n < 2^k
IntBitLen(n) == CHOOSE k \in 0..LimbBits : n < Pow2(k) /\ (k = 0 \/ Pow2(k - 1) <= n)

NatBitLen[x \in BigNat] ==
    IF x = <<>> THEN 0 ELSE (Len(x) - 1) * LimbBits + IntBitLen(x[Len(x)])

NatIsOdd[x \in BigNat] == x # <<>> /\ x[1] % 2 = 1

\* the value of a natural below 2^30 as a plain integer
NatToInt[x \in BigNat] == Limb(x, 1) + Base * Limb(x, 2)

\* One digit of a long division (Knuth, TAOCP 4.3.1, algorithm D): the
\* largest d with d * b <= r, for r < b * Base and the top limb of b at least
\* Base / 2.  The two top limbs of r over the top limb of b overestimate d
\* by at most 2.
Digit[r \in BigNat, b \in BigNat] ==
    LET n   == Len(b)
        est == (Limb(r, n + 1) * Base + Limb(r, n)) \div b[n]
        d0  == IF est > Base - 1 THEN Base - 1 ELSE est
    IN  IF NatCmp[NatMulSmall[b, d0], r] <= 0 THEN d0
        ELSE IF NatCmp[NatMulSmall[b, d0 - 1], r] <= 0 THEN d0 - 1
        ELSE d0 - 2

\* <<floor(a / b), a mod b>>, limbs i .. 1 of a still to bring down, q the
\* quotient digits and r the remainder so far
NatDivModFrom[a \in BigNat, b \in BigNat, i \in Nat, q \in BigNat, r \in BigNat] ==
    IF i = 0 THEN <<q, r>>
    ELSE LET r2 == NatNorm[<<a[i]>> \o r]
             d  == Digit[r2, b]
         IN  NatDivModFrom[a, b, i - 1, <<d>> \o q, NatSub[r2, NatMulSmall[b, d]]]

\* <<floor(a / b), a mod b>> for b # 0: both are first scaled by 2^s so that
\* the top limb of the divisor has its top bit set
NatDivMod[a \in BigNat, b \in BigNat] ==
    LET s  == LimbBits - IntBitLen(b[Len(b)])
        as == NatShl[a, s]
        qr == NatDivModFrom[as, NatShl[b, s], Len(as), <<>>, <<>>]
    IN  <<NatNorm[qr[1]], NatShr[qr[2], s]>>

\* a & b for two limbs
IntAnd[a \in Nat, b \in Nat] ==
    IF a = 0 \/ b = 0 THEN 0
    ELSE (a % 2) * (b % 2) + 2 * IntAnd[a \div 2, b \div 2]

NatAndFrom[x \in BigNat, y \in BigNat, i \in Nat] ==
    IF i > Len(x) \/ i > Len(y) THEN <<>>
    ELSE <<IntAnd[x[i], y[i]]>> \o NatAndFrom[x, y, i + 1]

\* x & y
NatAnd[x \in BigNat, y \in BigNat] == NatNorm[NatAndFrom[x, y, 1]]

\* Python's h % n for a natural h and an integer n # 0, |n| <= 2^16: the
\* result has the sign of n
PyMod[h \in BigNat, n \in Int] ==
    IF n > 0 THEN NatModSmall[h, n]
    ELSE LET r == NatModSmall[h, -n]
         IN  IF r = 0 THEN 0 ELSE r + n

(***************************************************************************)
(* Python float: IEEE-754 binary64, round to nearest, ties to even.  The   *)
(* magnitudes the program meets (5e-4 .. 1e5) are far from the subnormal   *)
(* and overflow ranges, so the exponent is unbounded here.                 *)
(***************************************************************************)
MantBits == 53

\* sign * man * 2^exp; a float has man = 0 or 2^52 <= man < 2^53
Dyadic == [sign : {-1, 1}, man : BigNat, exp : Int]

FZero(s) == [sign |-> s, man |-> <<>>, exp |-> 0]

FIsZero(x) == x.man = <<>>

\* the float nearest to s * m * 2^e (plus a nonzero amount below one unit of
\* m when sticky)
FRound[s \in {-1, 1}, m \in BigNat, e \in Int, sticky \in BOOLEAN] ==
    IF m = <<>> THEN FZero(s)
    ELSE LET L == NatBitLen[m]
         IN  IF L <= MantBits
             THEN [sign |-> s, man |-> NatShl[m, MantBits - L], exp |-> e - (MantBits - L)]
             ELSE LET sh   == L - MantBits
                      kept == NatShr[m, sh]
                      c    == NatCmp[NatModPow2[m, sh], NatShl[<<1>>, sh - 1]]
                      up   == c > 0 \/ (c = 0 /\ (sticky \/ NatIsOdd[kept]))
                      k2   == IF up THEN NatAdd[kept, <<1>>] ELSE kept
                  IN  IF NatBitLen[k2] > MantBits
                      THEN [sign |-> s, man |-> NatShr[k2, 1], exp |-> e + sh + 1]
                      ELSE [sign |-> s, man |-> k2, exp |-> e + sh]

\* float(n) for a Python int n, |n| < 2^31
FFromInt[n \in Int] ==
    FRound[IF n < 0 THEN -1 ELSE 1, NatFromInt[IF n < 0 THEN -n ELSE n], 0, FALSE]

FNeg[x \in Dyadic] == [x EXCEPT !.sign = -x.sign]

\* x + y
FAdd[x \in Dyadic, y \in Dyadic] ==
    IF FIsZero(x)
    THEN (IF FIsZero(y) THEN FZero(IF x.sign = -1 /\ y.sign = -1 THEN -1 ELSE 1) ELSE y)
    ELSE IF FIsZero(y) THEN x
    ELSE LET e  == IF x.exp < y.exp THEN x.exp ELSE y.exp
             mx == NatShl[x.man, x.exp - e]
             my == NatShl[y.man, y.exp - e]
             c  == NatCmp[mx, my]
         IN  IF x.sign # y.sign /\ c = 0 THEN FZero(1)
             ELSE FRound[IF c >= 0 THEN x.sign ELSE y.sign,
                         IF x.sign = y.sign THEN NatAdd[mx, my]
                         ELSE NatSub[IF c > 0 THEN mx ELSE my, IF c > 0 THEN my ELSE mx],
                         e, FALSE]

\* x - y
FSub[x \in Dyadic, y \in Dyadic] == FAdd[x, FNeg[y]]

\* x * y
FMul[x \in Dyadic, y \in Dyadic] ==
    IF FIsZero(x) \/ FIsZero(y) THEN FZero(x.sign * y.sign)
    ELSE FRound[x.sign * y.sign, NatMul[x.man, y.man], x.exp + y.exp, FALSE]

\* x / y for y # 0: a quotient of at least 56 bits and whether a remainder
\* is left, rounded once
GuardBits == MantBits + 3

FDiv[x \in Dyadic, y \in Dyadic] ==
    IF FIsZero(x) THEN FZero(x.sign * y.sign)
    ELSE LET qr == NatDivMod[NatShl[x.man, GuardBits], y.man]
         IN  FRound[x.sign * y.sign, qr[1], x.exp - y.exp - GuardBits, qr[2] # <<>>]

\* math.floor(x) as an integer, for |x| < 2^30
FFloor[x \in Dyadic] ==
    IF FIsZero(x) THEN 0
    ELSE IF x.exp >= 0 THEN x.sign * NatToInt[NatShl[x.man, x.exp]]
    ELSE LET ip   == NatToInt[NatShr[x.man, -x.exp]]
             frac == NatModPow2[x.man, -x.exp] # <<>>
         IN  IF x.sign = 1 THEN ip
             ELSE IF frac THEN -ip - 1 ELSE -ip

\* a float literal of the source, written num/den in decimal (868.7 is
\* 8687/10): the nearest float, which is what the correctly rounded division
\* of the two exactly representable integers gives
FLit(num, den) == FDiv[FFromInt[num], FFromInt[den]]

(***************************************************************************)
(* Python values: None is the empty tuple and a present value v is <<v>>;  *)
(* a str is the tuple of its code points where its characters matter (the *)
(* channel name) and a TLA+ string where only its identity does (region    *)
(* identifiers, descriptions); a call either returns or raises.            *)
(***************************************************************************)
None == <<>>

Some(v) == <<v>>

Returns(v) == [exc |-> "", val |-> v]

Raises(e) == [exc |-> e, val |-> 0]

(***************************************************************************)
(* REGION_FREQUENCIES: a dict, iterated in insertion order.                *)
(***************************************************************************)
\* the dict as the source writes it: every frequency is a decimal literal,
\* <<9020, 10>> for 902.0
RegionLiterals == <<
    [id |-> "US", freq_start |-> <<9020, 10>>, freq_end |-> <<9280, 10>>, spacing |-> 0,
     description |-> "North America - 915 MHz ISM Band"],
    [id |-> "EU_868", freq_start |-> <<8630, 10>>, freq_end |-> <<8700, 10>>, spacing |-> 0,
     description |-> "Europe - 868 MHz ISM Band"],
    [id |-> "EU_433", freq_start |-> <<4330, 10>>, freq_end |-> <<43479, 100>>, spacing |-> 0,
     description |-> "Europe - 433 MHz ISM Band"],
    [id |-> "ANZ", freq_start |-> <<9150, 10>>, freq_end |-> <<9280, 10>>, spacing |-> 0,
     description |-> "Australia/New Zealand - 915 MHz ISM Band"],
    [id |-> "NZ_865", freq_start |-> <<8640, 10>>, freq_end |-> <<8680, 10>>, spacing |-> 0,
     description |-> "New Zealand - 865 MHz Band"],
    [id |-> "CN", freq_start |-> <<4700, 10>>, freq_end |-> <<5100, 10>>, spacing |-> 0,
     description |-> "China - 470-510 MHz Band"],
    [id |-> "JP", freq_start |-> <<9200, 10>>, freq_end |-> <<9280, 10>>, spacing |-> 0,
     description |-> "Japan - 920 MHz Band"],
    [id |-> "KR", freq_start |-> <<9200, 10>>, freq_end |-> <<9230, 10>>, spacing |-> 0,
     description |-> "Korea - 920 MHz Band"],
    [id |-> "TW", freq_start |-> <<9200, 10>>, freq_end |-> <<9250, 10>>, spacing |-> 0,
     description |-> "Taiwan - 920 MHz Band"],
    [id |-> "RU", freq_start |-> <<8687, 10>>, freq_end |-> <<8692, 10>>, spacing |-> 0,
     description |-> "Russia - 868 MHz Band"],
    [id |-> "IN", freq_start |-> <<8650, 10>>, freq_end |-> <<8670, 10>>, spacing |-> 0,
     description |-> "India - 865 MHz Band"],
    [id |-> "NP_865", freq_start |-> <<8650, 10>>, freq_end |-> <<8670, 10>>, spacing |-> 0,
     description |-> "Nepal - 865 MHz Band"],
    [id |-> "TH", freq_start |-> <<9200, 10>>, freq_end |-> <<9250, 10>>, spacing |-> 0,
     description |-> "Thailand - 920 MHz Band"],
    [id |-> "MY_919", freq_start |-> <<9190, 10>>, freq_end |-> <<9240, 10>>, spacing |-> 0,
     description |-> "Malaysia - 919 MHz Band"],
    [id |-> "MY_433", freq_start |-> <<4330, 10>>, freq_end |-> <<4350, 10>>, spacing |-> 0,
     description |-> "Malaysia - 433 MHz Band"],
    [id |-> "SG_923", freq_start |-> <<9200, 10>>, freq_end |-> <<9250, 10>>, spacing |-> 0,
     description |-> "Singapore - 923 MHz Band"],
    [id |-> "UA_868", freq_start |-> <<8630, 10>>, freq_end |-> <<8700, 10>>, spacing |-> 0,
     description |-> "Ukraine - 868 MHz Band"],
    [id |-> "UA_433", freq_start |-> <<4330, 10>>, freq_end |-> <<43479, 100>>, spacing |-> 0,
     description |-> "Ukraine - 433 MHz Band"]
>>

\* the dict as the interpreter holds it: every literal is the nearest float
REGION_FREQUENCIES ==
    [i \in DOMAIN RegionLiterals |->
        [id          |-> RegionLiterals[i].id,
         freq_start  |-> FLit(RegionLiterals[i].freq_start[1], RegionLiterals[i].freq_start[2]),
         freq_end    |-> FLit(RegionLiterals[i].freq_end[1], RegionLiterals[i].freq_end[2]),
         spacing     |-> RegionLiterals[i].spacing,
         description |-> RegionLiterals[i].description]]

\* the keys of the dict
RegionKeys == {REGION_FREQUENCIES[i].id : i \in DOMAIN REGION_FREQUENCIES}

\* REGION_FREQUENCIES[region] for a key
RegionEntry(region) ==
    REGION_FREQUENCIES[CHOOSE i \in DOMAIN REGION_FREQUENCIES : REGION_FREQUENCIES[i].id = region]

\* the lines "  {reg}: {params['description']}", in the dict's order
RegionListing ==
    [i \in DOMAIN REGION_FREQUENCIES |->
        [label |-> REGION_FREQUENCIES[i].id, value |-> <<REGION_FREQUENCIES[i].description>>]]

\* what get_region_parameters prints for a region that is no key
InvalidRegionOutput(region) ==
    <<[label |-> "Error: Invalid region", value |-> <<region>>],
      [label |-> "Available regions:", value |-> <<>>]>> \o RegionListing

\* mutant: an unknown region falls back to the default region "US"
get_region_parameters_fallback(region) ==
    IF region \notin RegionKeys THEN Some(RegionEntry("US")) ELSE Some(RegionEntry(region))

\* get_region_parameters(region): the entry, or None once the error and the
\* list are printed
get_region_parameters(region) ==
    IF region \notin RegionKeys THEN None ELSE Some(RegionEntry(region))

(***************************************************************************)
(* The channel names the bandwidth depends on, as code points.             *)
(***************************************************************************)
ShortTurbo == <<83, 104, 111, 114, 116, 84, 117, 114, 98, 111>>

LongMod == <<76, 111, 110, 103, 77, 111, 100>>

LongSlow == <<76, 111, 110, 103, 83, 108, 111, 119>>

LongFast == <<76, 111, 110, 103, 70, 97, 115, 116>>

get_bandwidth_khz(channel_name) ==
    IF channel_name = ShortTurbo THEN 500
    ELSE IF channel_name \in {LongMod, LongSlow} THEN 125
    ELSE 250

\* mutant: one channel width is taken off the band before dividing
calculate_num_freq_slots_inner(freq_start, freq_end, spacing, bw) ==
    LET divisor == FAdd[FFromInt[spacing], FDiv[FFromInt[bw], FFromInt[1000]]]
    IN  IF FIsZero(divisor) THEN Raises("ZeroDivisionError")
        ELSE Returns(FFloor[FDiv[FSub[FSub[freq_end, freq_start], divisor], divisor]])

\* mutant: math.ceil in place of math.floor
calculate_num_freq_slots_ceil(freq_start, freq_end, spacing, bw) ==
    LET divisor == FAdd[FFromInt[spacing], FDiv[FFromInt[bw], FFromInt[1000]]]
    IN  IF FIsZero(divisor) THEN Raises("ZeroDivisionError")
        ELSE Returns(-FFloor[FNeg[FDiv[FSub[freq_end, freq_start], divisor]]])

\* math.floor((freq_end - freq_start) / (spacing + (bw / 1000))); the float
\* division raises on a zero divisor
calculate_num_freq_slots(freq_start, freq_end, spacing, bw) ==
    LET divisor == FAdd[FFromInt[spacing], FDiv[FFromInt[bw], FFromInt[1000]]]
    IN  IF FIsZero(divisor) THEN Raises("ZeroDivisionError")
        ELSE Returns(FFloor[FDiv[FSub[freq_end, freq_start], divisor]])

\* mutant: a 31-bit mask, 0x7FFFFFFF
mask_31_bits == NatSub[NatShl[<<1>>, 31], <<1>>]

\* mask = 0xFFFFFFFF
mask == NatSub[NatShl[<<1>>, 32], <<1>>]

\* the loop of hash_string from character i on
hash_loop[s \in Seq(Nat), i \in Nat, hash_value \in BigNat] ==
    IF i > Len(s) THEN hash_value
    ELSE hash_loop[s, i + 1,
            NatAnd[NatAdd[NatAdd[NatShl[hash_value, 5], hash_value], NatFromInt[s[i]]],
                   mask]]

hash_string(s) == hash_loop[s, 1, NatFromInt[5381]]

\* hash_string(channel_name) % num_freq_slots; a zero modulus raises
determine_frequency_slot(channel_name, num_freq_slots) ==
    IF num_freq_slots = 0 THEN Raises("ZeroDivisionError")
    ELSE Returns(PyMod[hash_string(channel_name), num_freq_slots])

\* mutant: the one-based slot number in place of the slot index
calculate_frequency_one_based(freq_start, frequency_slot, bw) ==
    FAdd[FAdd[freq_start, FDiv[FFromInt[bw], FFromInt[2000]]],
         FMul[FFromInt[frequency_slot + 1], FDiv[FFromInt[bw], FFromInt[1000]]]]

\* mutant: the half-bandwidth offset is left out
calculate_frequency_from_edge(freq_start, frequency_slot, bw) ==
    FAdd[freq_start, FMul[FFromInt[frequency_slot], FDiv[FFromInt[bw], FFromInt[1000]]]]

\* freq_start + (bw / 2000) + (frequency_slot * (bw / 1000))
calculate_frequency(freq_start, frequency_slot, bw) ==
    FAdd[FAdd[freq_start, FDiv[FFromInt[bw], FFromInt[2000]]],
         FMul[FFromInt[frequency_slot], FDiv[FFromInt[bw], FFromInt[1000]]]]

\* the lines print_results writes
print_results(channel_name, region, num_freq_slots, frequency_slot, freq, bw, region_params) ==
    <<[label |-> "Region", value |-> <<region, region_params.description>>],
      [label |-> "Frequency Range", value |-> <<region_params.freq_start, region_params.freq_end>>],
      [label |-> "Channel Name", value |-> <<channel_name>>],
      [label |-> "Number of Frequency Slots", value |-> <<num_freq_slots>>],
      [label |-> "Frequency Slot", value |-> <<frequency_slot + 1>>],
      [label |-> "Selected Frequency", value |-> <<freq>>],
      [label |-> "Bandwidth", value |-> <<bw>>]>>

\* mutant: "if args.bandwidth:" in place of "if args.bandwidth is not None:"
select_bandwidth_truthy(bandwidth, channel_name) ==
    IF bandwidth # None /\ bandwidth[1] # 0 THEN bandwidth[1]
    ELSE get_bandwidth_khz(channel_name)

\* main: bw is the --bandwidth argument when one is given, else it follows
\* the channel name
select_bandwidth(bandwidth, channel_name) ==
    IF bandwidth # None THEN bandwidth[1] ELSE get_bandwidth_khz(channel_name)

(***************************************************************************)
(* The command lines explored.                                             *)
(***************************************************************************)
MaxNameLen == 2

\* a, Z, and the largest code point
Alphabet == {97, 90, 1114111}

RECURSIVE NamesOfLen(_)
NamesOfLen(n) ==
    IF n = 0 THEN {<<>>}
    ELSE {<<c>> \o s : c \in Alphabet, s \in NamesOfLen(n - 1)}

ShortNames == UNION {NamesOfLen(n) : n \in 0..MaxNameLen}

\* the recognised names, the default, and near misses of them: another
\* case, a prefix, an extension
NamedChannels ==
    {LongFast, ShortTurbo, LongMod, LongSlow,
     <<115, 104, 111, 114, 116, 116, 117, 114, 98, 111>>,
     <<76, 79, 78, 71, 83, 76, 79, 87>>,
     <<83, 104, 111, 114, 116>>,
     <<76, 111, 110, 103, 77, 111>>,
     <<76, 111, 110, 103, 83, 108, 111, 119, 33>>}

ChannelNameArgs == NamedChannels \cup ShortNames

RegionArgs == RegionKeys \cup {"help", "XX", "us"}

BandwidthOverrides == {-250, -1, 0, 1, 35, 62, 125, 280, 400, 1000}

BandwidthArgs == {None} \cup {Some(b) : b \in BandwidthOverrides}

(***************************************************************************)
(* main(), one step per statement group.                                   *)
(***************************************************************************)
VARIABLES pc, args, region_params, channel_name, bw, num_freq_slots,
          frequency_slot, freq, raised, stdout

vars == <<pc, args, region_params, channel_name, bw, num_freq_slots,
          frequency_slot, freq, raised, stdout>>

Init ==
    /\ pc = "parse_args"
    /\ args = None
    /\ region_params = None
    /\ channel_name = None
    /\ bw = None
    /\ num_freq_slots = None
    /\ frequency_slot = None
    /\ freq = None
    /\ raised = ""
    /\ stdout = <<>>

\* args = parser.parse_args()
ParseArgs ==
    /\ pc = "parse_args"
    /\ \E r \in RegionArgs, n \in ChannelNameArgs, b \in BandwidthArgs :
          args' = Some([region |-> r, channel_name |-> n, bandwidth |-> b])
    /\ pc' = "region"
    /\ UNCHANGED <<region_params, channel_name, bw, num_freq_slots, frequency_slot,
                   freq, raised, stdout>>

\* if args.region == "help": list the regions and return
RegionHelp ==
    /\ pc = "region"
    /\ args[1].region = "help"
    /\ stdout' = <<[label |-> "Available LoRa regions:", value |-> <<>>]>> \o RegionListing
    /\ pc' = "done"
    /\ UNCHANGED <<args, region_params, channel_name, bw, num_freq_slots, frequency_slot,
                   freq, raised>>

\* region_params = get_region_parameters(args.region); return on None
LookupRegion ==
    /\ pc = "region"
    /\ args[1].region # "help"
    /\ region_params' = get_region_parameters(args[1].region)
    /\ IF region_params' = None
       THEN /\ stdout' = InvalidRegionOutput(args[1].region)
            /\ pc' = "done"
       ELSE /\ stdout' = stdout
            /\ pc' = "bandwidth"
    /\ UNCHANGED <<args, channel_name, bw, num_freq_slots, frequency_slot, freq, raised>>

\* channel_name = args.channel_name; bw from the argument or the name
SelectBandwidth ==
    /\ pc = "bandwidth"
    /\ channel_name' = Some(args[1].channel_name)
    /\ bw' = Some(select_bandwidth(args[1].bandwidth, args[1].channel_name))
    /\ pc' = "num_freq_slots"
    /\ UNCHANGED <<args, region_params, num_freq_slots, frequency_slot, freq, raised, stdout>>

\* num_freq_slots = calculate_num_freq_slots(...)
NumFreqSlots ==
    /\ pc = "num_freq_slots"
    /\ \E r \in {calculate_num_freq_slots(region_params[1].freq_start,
                                         region_params[1].freq_end,
                                         region_params[1].spacing, bw[1])} :
           IF r.exc # ""
           THEN /\ raised' = r.exc
                /\ pc' = "done"
                /\ UNCHANGED num_freq_slots
           ELSE /\ num_freq_slots' = Some(r.val)
                /\ pc' = "frequency_slot"
                /\ UNCHANGED raised
    /\ UNCHANGED <<args, region_params, channel_name, bw, frequency_slot, freq, stdout>>

\* frequency_slot = determine_frequency_slot(channel_name, num_freq_slots)
FrequencySlot ==
    /\ pc = "frequency_slot"
    /\ \E r \in {determine_frequency_slot(channel_name[1], num_freq_slots[1])} :
           IF r.exc # ""
           THEN /\ raised' = r.exc
                /\ pc' = "done"
                /\ UNCHANGED frequency_slot
           ELSE /\ frequency_slot' = Some(r.val)
                /\ pc' = "frequency"
                /\ UNCHANGED raised
    /\ UNCHANGED <<args, region_params, channel_name, bw, num_freq_slots, freq, stdout>>

\* freq = calculate_frequency(region_freq_start, frequency_slot, bw)
Frequency ==
    /\ pc = "frequency"
    /\ freq' = Some(calculate_frequency(region_params[1].freq_start, frequency_slot[1], bw[1]))
    /\ pc' = "print"
    /\ UNCHANGED <<args, region_params, channel_name, bw, num_freq_slots, frequency_slot,
                   raised, stdout>>

\* print_results(...)
PrintResults ==
    /\ pc = "print"
    /\ stdout' = print_results(channel_name[1], args[1].region, num_freq_slots[1],
                               frequency_slot[1], freq[1], bw[1], region_params[1])
    /\ pc' = "done"
    /\ UNCHANGED <<args, region_params, channel_name, bw, num_freq_slots, frequency_slot,
                   freq, raised>>

Next ==
    \/ ParseArgs
    \/ RegionHelp
    \/ LookupRegion
    \/ SelectBandwidth
    \/ NumFreqSlots
    \/ FrequencySlot
    \/ Frequency
    \/ PrintResults

Spec == Init /\ [][Next]_vars

(***************************************************************************)
(* Exact arithmetic for the properties.  A dyadic number is a record       *)
(* [sign, man, exp] like a float, with a mantissa of any length; no        *)
(* operation here rounds.                                                  *)
(***************************************************************************)
DFromInt[n \in Int] == IF n < 0 THEN [sign |-> -1, man |-> NatFromInt[-n], exp |-> 0]
                                ELSE [sign |-> 1, man |-> NatFromInt[n], exp |-> 0]

DNeg[x \in Dyadic] == [x EXCEPT !.sign = -x.sign]

DAdd[x \in Dyadic, y \in Dyadic] ==
    LET e  == IF x.exp < y.exp THEN x.exp ELSE y.exp
        mx == NatShl[x.man, x.exp - e]
        my == NatShl[y.man, y.exp - e]
    IN  IF x.sign = y.sign THEN [sign |-> x.sign, man |-> NatAdd[mx, my], exp |-> e]
        ELSE IF NatCmp[mx, my] >= 0 THEN [sign |-> x.sign, man |-> NatSub[mx, my], exp |-> e]
        ELSE [sign |-> y.sign, man |-> NatSub[my, mx], exp |-> e]

DSub[x \in Dyadic, y \in Dyadic] == DAdd[x, DNeg[y]]

\* x * k for an integer k, |k| <= 2^15
DTimes[x \in Dyadic, k \in Int] ==
    IF k < 0 THEN [sign |-> -x.sign, man |-> NatMulSmall[x.man, -k], exp |-> x.exp]
             ELSE [sign |-> x.sign, man |-> NatMulSmall[x.man, k], exp |-> x.exp]

DAbs[x \in Dyadic] == [x EXCEPT !.sign = 1]

\* the sign of x: -1, 0, 1
DSign[x \in Dyadic] == IF x.man = <<>> THEN 0 ELSE x.sign

\* x <= y, x < y
DLe(x, y) == DSign[DSub[y, x]] >= 0

DLt(x, y) == DSign[DSub[y, x]] > 0

\* 2^-42 MHz, two units in the last place of a frequency of 512 MHz or more
Tolerance == [sign |-> 1, man |-> <<1>>, exp |-> -42]

\* the name-derived bandwidths
DefaultBandwidths == {125, 250, 500}

\* 1000 * (freq_end - freq_start) of a table entry, in kHz, exactly
WidthKHz(entry) == DTimes[DSub[entry.freq_end, entry.freq_start], 1000]

\* n * (1000 * spacing + b) kHz, the band n slots of bandwidth b kHz fill
SlotsKHz(entry, n, b) == DFromInt[n * (1000 * entry.spacing + b)]

\* n is the largest integer with n * (spacing + b/1000) <= freq_end - freq_start
IsExactSlotCount(entry, n, b) ==
    /\ DLe(SlotsKHz(entry, n, b), WidthKHz(entry))
    /\ DLt(WidthKHz(entry), SlotsKHz(entry, n + 1, b))

\* q * (spacing + b/1000) = freq_end - freq_start: the band is exactly q
\* bandwidths wide
IsExactMultiple(entry, q, b) ==
    /\ DLe(SlotsKHz(entry, q, b), WidthKHz(entry))
    /\ DLe(WidthKHz(entry), SlotsKHz(entry, q, b))

\* n <= (freq_end - freq_start) / (spacing + b/1000) < n + 2: n is the floor
\* of the exact quotient or one less
IsFloorOrOneLess(entry, n, b) ==
    IF b > 0
    THEN /\ DLe(SlotsKHz(entry, n, b), WidthKHz(entry))
         /\ DLt(WidthKHz(entry), SlotsKHz(entry, n + 2, b))
    ELSE /\ DLe(WidthKHz(entry), SlotsKHz(entry, n, b))
         /\ DLt(SlotsKHz(entry, n + 2, b), WidthKHz(entry))

\* 2000 * (freq_start + b/2000 + slot * b/1000): the centre of slot `slot`
\* (zero-based) in units of 0.5 kHz, exactly
Centre2000(entry, slot, b) ==
    DAdd[DTimes[entry.freq_start, 2000], DFromInt[b + 2 * slot * b]]

\* |f - (freq_start + b/2000 + slot * b/1000)| <= tol
CentreWithin(f, entry, slot, b, tol) ==
    DLe(DAbs[DSub[DTimes[f, 2000], Centre2000(entry, slot, b)]], DTimes[tol, 2000])

\* freq_start - tol <= f - b/2000 and f + b/2000 <= freq_end + tol
ChannelInsideBand(f, entry, b, tol) ==
    /\ DLe(DSub[DTimes[entry.freq_start, 2000], DTimes[tol, 2000]],
           DSub[DTimes[f, 2000], DFromInt[b]])
    /\ DLe(DAdd[DTimes[f, 2000], DFromInt[b]],
           DAdd[DTimes[entry.freq_end, 2000], DTimes[tol, 2000]])

NoTolerance == DFromInt[0]

\* the djb2 hash as the specification states it: from 5381, for each code
\* point acc = (acc * 33 + code_point) mod 2^32
djb2[s \in Seq(Nat), n \in Nat] ==
    IF n = 0 THEN NatFromInt[5381]
    ELSE NatModPow2[NatAdd[NatMulSmall[djb2[s, n - 1], 33], NatFromInt[s[n]]], 32]

Parsed == args # None

Region == args[1].region

(***************************************************************************)
(* Properties.                                                             *)
(***************************************************************************)

\* C1: whenever the computed slot count is <= 0 the resolution fails with a
\* DegenerateBand error, and no slot index and no frequency are produced.
C1_DegenerateBandFails ==
    (num_freq_slots # None /\ num_freq_slots[1] <= 0) =>
        /\ frequency_slot = None
        /\ freq = None
        /\ pc = "done" => raised = "DegenerateBand"

\* C2: a region identifier that is no key of the table ends the run with the
\* invalid-region error and the region list before a bandwidth, slot count,
\* slot index or frequency is computed; for a key, the lookup returns exactly
\* that entry of the table.
C2_UnknownRegionStops ==
    (Parsed /\ pc # "region") =>
        /\ Region \notin RegionKeys =>
              /\ pc = "done" /\ raised = ""
              /\ region_params = None /\ channel_name = None /\ bw = None
              /\ num_freq_slots = None /\ frequency_slot = None /\ freq = None
        /\ (Region \notin RegionKeys /\ Region # "help") =>
              /\ stdout[1] = [label |-> "Error: Invalid region", value |-> <<Region>>]
              /\ Len(stdout) = 2 + Len(REGION_FREQUENCIES)
        /\ Region \in RegionKeys =>
              \E i \in DOMAIN REGION_FREQUENCIES :
                  /\ REGION_FREQUENCIES[i].id = Region
                  /\ region_params = <<REGION_FREQUENCIES[i]>>
        /\ Region = "US" =>
              /\ region_params[1].freq_start = FFromInt[902]
              /\ region_params[1].freq_end = FFromInt[928]

C2_Witness ==
    /\ pc = "done"
    /\ Region = "XX"
    /\ stdout # <<>>

\* C3: the effective bandwidth is the override whenever one is given, else 500
\* for exactly "ShortTurbo", 125 for exactly "LongMod" or "LongSlow" and 250
\* for every other name; the slot count and the frequency follow from it.
C3_EffectiveBandwidth ==
    bw # None =>
        LET name     == args[1].channel_name
            override == args[1].bandwidth
        IN  /\ override # None => bw[1] = override[1]
            /\ override = None =>
                 bw[1] = IF name = <<83, 104, 111, 114, 116, 84, 117, 114, 98, 111>> THEN 500
                         ELSE IF name = <<76, 111, 110, 103, 77, 111, 100>> THEN 125
                         ELSE IF name = <<76, 111, 110, 103, 83, 108, 111, 119>> THEN 125
                         ELSE 250
            /\ num_freq_slots # None =>
                 IsFloorOrOneLess(region_params[1], num_freq_slots[1], bw[1])
            /\ freq # None =>
                 CentreWithin(freq[1], region_params[1], frequency_slot[1], bw[1], Tolerance)

C3_Witness ==
    /\ pc = "done"
    /\ args[1].channel_name = ShortTurbo
    /\ args[1].bandwidth = Some(125)
    /\ bw = Some(125)
    /\ freq # None

\* C4: hash_string(s), the shift-add loop masked with 0xFFFFFFFF after every
\* step, is the djb2 fold acc = (acc * 33 + code_point) mod 2^32 from 5381; it
\* lies in [0, 2^32 - 1], and hash_string("") = 5381.
C4_HashIsDjb2 ==
    Parsed =>
        LET s == args[1].channel_name
        IN  /\ hash_string(s) = djb2[s, Len(s)]
            /\ NatBitLen[hash_string(s)] <= 32
            /\ s = <<>> => hash_string(s) = <<5381>>
            /\ s = LongFast => hash_string(s) = NatFromInt[130429955]

C4_Witness ==
    /\ frequency_slot # None
    /\ Len(channel_name[1]) > 4
    /\ NatBitLen[hash_string(channel_name[1])] = 32

\* C5: the slot index is in [0, slot_count - 1] for every slot count a
\* resolution produces, and the displayed slot number is in [1, slot_count].
C5_SlotIndexInRange ==
    /\ frequency_slot # None =>
          /\ 0 <= frequency_slot[1]
          /\ frequency_slot[1] <= num_freq_slots[1] - 1
    /\ (pc = "done" /\ freq # None) =>
          \E k \in 1..num_freq_slots[1] : stdout[5].value = <<k>>

\* C6: for every region of the table and every name-derived bandwidth the
\* slot count is positive: a resolution without an override never divides by
\* zero; the tightest case, RU at 500 kHz, has one slot.
C6_DefaultSlotCountsPositive ==
    (Parsed /\ args[1].bandwidth = None) =>
        /\ raised = ""
        /\ num_freq_slots # None => num_freq_slots[1] >= 1
        /\ (num_freq_slots # None /\ Region = "RU" /\ bw = Some(500)) => num_freq_slots[1] = 1
        /\ (pc = "done" /\ Region \in RegionKeys) => freq # None

C6_Witness ==
    /\ pc = "done"
    /\ Region = "RU"
    /\ args[1].bandwidth = None
    /\ bw = Some(500)
    /\ num_freq_slots = Some(1)
    /\ freq # None

C8_FrequencyFormula ==
    freq # None =>
        /\ CentreWithin(freq[1], region_params[1], frequency_slot[1], bw[1], Tolerance)
        /\ bw[1] \in DefaultBandwidths =>
              CentreWithin(freq[1], region_params[1], frequency_slot[1], bw[1], NoTolerance)
        /\ (Region = "US" /\ args[1].channel_name = LongFast /\ args[1].bandwidth = None) =>
              /\ frequency_slot = Some(19)
              /\ freq[1] = FLit(906875, 1000)
        /\ pc = "done" =>
              /\ stdout[5] = [label |-> "Frequency Slot", value |-> <<frequency_slot[1] + 1>>]
              /\ stdout[6] = [label |-> "Selected Frequency", value |-> freq]

C8_Witness ==
    /\ pc = "done"
    /\ Region = "US"
    /\ args[1].channel_name = LongFast
    /\ frequency_slot = Some(19)
    /\ stdout # <<>>

\* C9: a bandwidth override <= 0 is rejected with an InvalidBandwidth error
\* before a slot count, slot index or frequency is computed.
C9_NonPositiveBandwidthRejected ==
    (Parsed /\ args[1].bandwidth # None /\ args[1].bandwidth[1] <= 0) =>
        /\ num_freq_slots = None
        /\ frequency_slot = None
        /\ freq = None
        /\ (pc = "done" /\ Region \in RegionKeys) => raised = "InvalidBandwidth"

\* C10 as stated: for a positive bandwidth and a slot count >= 1 the whole
\* channel lies inside the band: freq_start <= frequency - bw/2000 and
\* frequency + bw/2000 <= freq_end.
C10_ChannelInsideBand ==
    (freq # None /\ bw[1] > 0 /\ num_freq_slots[1] >= 1) =>
        ChannelInsideBand(freq[1], region_params[1], bw[1], NoTolerance)

\* C10 amended: the channel lies inside the band up to the rounding of the
\* double sum (2^-42 MHz), exactly so for the bandwidths 125, 250 and 500, and
\* the centre frequency is strictly inside the band.
C10_ChannelInsideBandRounded ==
    (freq # None /\ bw[1] > 0 /\ num_freq_slots[1] >= 1) =>
        /\ ChannelInsideBand(freq[1], region_params[1], bw[1], Tolerance)
        /\ bw[1] \in DefaultBandwidths =>
              ChannelInsideBand(freq[1], region_params[1], bw[1], NoTolerance)
        /\ DLt(region_params[1].freq_start, freq[1])
        /\ DLt(freq[1], region_params[1].freq_end)

C10_Witness ==
    /\ pc = "done"
    /\ Region = "IN"
    /\ bw = Some(400)
    /\ num_freq_slots = Some(5)
    /\ frequency_slot = Some(4)
    /\ ~ChannelInsideBand(freq[1], region_params[1], bw[1], NoTolerance)

=============================================================================
